---- MODULE Spec2Model ----
(***************************************************************************)
(* Model of bugtracker/io/processor.py (Processor, IrisProcessor and the   *)
(* unimplemented processors) and bugtracker/io/models.py (BaseOutput,      *)
(* IrisOutput and the unimplemented outputs).                              *)
(*                                                                         *)
(* Arrays are records [shape, ...] with zero-based index tuples.  A        *)
(* boolean array is [shape, cells] with cells the set of True indices; a   *)
(* masked array is [shape, data, mask] where mask = [has, cells] and       *)
(* has = FALSE stands for numpy.ma.nomask.  Reflectivities, angles and     *)
(* thresholds are integers and the regression is computed exactly (float   *)
(* rounding is not modelled).                                              *)
(***************************************************************************)
EXTENDS Integers, Sequences, FiniteSets, TLC

\* Bounds of the model.
MaxAzims == 2
MaxGates == 2
MaxElevs == 2
MaxDbz == 2
MaxRegion == 2
MaxSlope == 1

VARIABLES
    proc,           \* the IrisProcessor instance (self)
    iris_data,      \* the IrisData being processed: convol and dopvol
    convol_precip,  \* PrecipFilter.filter_3d of the CONVOL family
    dopvol_precip,  \* PrecipFilter.filter_3d of the DOPVOL family
    call,           \* the last call made: operation, arguments, outcome
    prev,           \* the filter_precip run before the last one
    output,         \* the IrisOutput instance
    fs              \* the netCDF file at the output path

vars == <<proc, iris_data, convol_precip, dopvol_precip, call, prev,
          output, fs>>

\* The variables of the writer.
outVars == <<output, fs>>

\* The variables of the processor, but for proc and call.
dataVars == <<iris_data, convol_precip, dopvol_precip, prev>>

----------------------------------------------------------------------------
(* numpy arrays *)

Cells(shape) ==
    {<<e, a, g>> : e \in 0..(shape[1] - 1), a \in 0..(shape[2] - 1),
                   g \in 0..(shape[3] - 1)}

Size(shape) == shape[1] * shape[2] * shape[3]

NoMask == [has |-> FALSE, cells |-> {}]

BoolArray(shape, cells) == [shape |-> shape, cells |-> cells]

Zeros(shape) == BoolArray(shape, {})

MaskedArray(shape, data, mask) == [shape |-> shape, data |-> data, mask |-> mask]

\* The cells of a masked array that are masked.
Masked(vol) == IF vol.mask.has THEN vol.mask.cells ELSE {}

RECURSIVE SumF(_, _)
SumF(f, S) ==
    IF S = {} THEN 0
    ELSE LET c == CHOOSE c \in S : TRUE
         IN  f[c] + SumF(f, S \ {c})

----------------------------------------------------------------------------
(* Python integer arithmetic *)

\* a % b for b # 0: the result has the sign of b.
PyMod(a, b) == IF b > 0 THEN a % b ELSE -((-a) % (-b))

\* a // b for b # 0: floor division.
PyFloorDiv(a, b) == IF b > 0 THEN a \div b ELSE (-a) \div (-b)

----------------------------------------------------------------------------
(* IrisProcessor.determine_zone_slope *)

\* The (angle, dbz) samples determine_zone_slope pools: one per elevation
\* of convol_angles and per cell of the zone's azimuth / gate slice.
ZoneSamples(self, azim_zone, gate_zone) ==
    LET azim_region == self.config.azim_region
        gate_region == self.config.gate_region
        min_azim == azim_zone * azim_region
        max_azim == (azim_zone + 1) * azim_region
        min_gate == gate_zone * gate_region
        max_gate == (gate_zone + 1) * gate_region
    IN  {<<x, a, g>> : x \in 0..(Len(self.convol_angles) - 1),
                       a \in min_azim..(max_azim - 1),
                       g \in min_gate..(max_gate - 1)}

\* scipy.stats.linregress on samples P with abscissa xs and ordinate ys,
\* the samples in nans holding NaN.  The slope is the exact quotient
\* num / den.  All abscissae identical: a recent scipy raises ValueError,
\* an older one divides 0 by 0 and returns NaN.
linregress(P, xs, ys, nans, build) ==
    LET n    == Cardinality(P)
        sx   == SumF(xs, P)
        sxx  == SumF([p \in P |-> xs[p] * xs[p]], P)
        den  == n * sxx - sx * sx
        sy   == SumF(ys, P)
        sxy  == SumF([p \in P |-> xs[p] * ys[p]], P)
    IN  IF den = 0
        THEN IF build.degenerate = "raise"
             THEN [kind |-> "raise", num |-> 0, den |-> 0]
             ELSE [kind |-> "nan", num |-> 0, den |-> 0]
        ELSE IF nans # {}
        THEN [kind |-> "nan", num |-> 0, den |-> 0]
        ELSE [kind |-> "num", num |-> n * sxy - sx * sy, den |-> den]

\* The regression a per-family computation would run for the DOPVOL
\* family: dopvol_angles against the DOPVOL values of the zone.
determine_zone_slope_dopvol(self, data, azim_zone, gate_zone, build) ==
    LET azim_region == self.config.azim_region
        gate_region == self.config.gate_region
        P  == {<<x, a, g>> :
                 x \in 0..(Len(self.dopvol_angles) - 1),
                 a \in (azim_zone * azim_region)..((azim_zone + 1) * azim_region - 1),
                 g \in (gate_zone * gate_region)..((gate_zone + 1) * gate_region - 1)}
        xs == [p \in P |-> self.dopvol_angles[p[1] + 1]]
        hidden == P \cap Masked(data.dopvol)
        ys == [p \in P |-> IF p \in hidden THEN 0 ELSE data.dopvol.data[p]]
        nans == IF build.masked = "nan" THEN hidden ELSE {}
    IN  linregress(P, xs, ys, nans, build)

\* We will only use CONVOL scans for determining slopes.
\* list(zone_data.flatten()): a masked element reaches linregress as NaN
\* or as the masked constant's data 0.0, by numpy version.
determine_zone_slope(self, data, azim_zone, gate_zone, build) ==
    LET P  == ZoneSamples(self, azim_zone, gate_zone)
        xs == [p \in P |-> self.convol_angles[p[1] + 1]]
        hidden == P \cap Masked(data.convol)
        ys == [p \in P |-> IF p \in hidden THEN 0 ELSE data.convol.data[p]]
        nans == IF build.masked = "nan" THEN hidden ELSE {}
    IN  linregress(P, xs, ys, nans, build)

\* slope > max_slope; a comparison with NaN is False.
SlopeGreater(slope, max_slope) ==
    slope.kind = "num" /\ slope.num > max_slope * slope.den

----------------------------------------------------------------------------
(* IrisProcessor.filter_precip *)

\* filter_3d[0, min_azim:max_azim, min_gate:max_gate] = True, the block
\* of the lowest elevation alone:
SetBlockFirstElev(filter, min_azim, max_azim, min_gate, max_gate) ==
    [filter EXCEPT !.cells = @ \cup
        {c \in Cells(filter.shape) :
            /\ c[1] = 0
            /\ min_azim <= c[2] /\ c[2] < max_azim
            /\ min_gate <= c[3] /\ c[3] < max_gate}]

\* filter_3d[:, min_azim:max_azim, min_gate:max_gate] = True
SetBlock(filter, min_azim, max_azim, min_gate, max_gate) ==
    [filter EXCEPT !.cells = @ \cup
        {c \in Cells(filter.shape) :
            /\ min_azim <= c[2] /\ c[2] < max_azim
            /\ min_gate <= c[3] /\ c[3] < max_gate}]

\* One iteration of the zone loop, on the loop state acc.
FilterZone(self, data, build, x, y, acc) ==
    LET azim_region == self.config.azim_region
        gate_region == self.config.gate_region
        max_slope == self.config.max_dbz_per_degree
        slope == determine_zone_slope(self, data, x, y, build)
    IN  IF slope.kind = "raise"
        THEN [acc EXCEPT !.outcome = "ValueError:linregress",
                         !.nslopes = @ + 1]
        ELSE IF SlopeGreater(slope, max_slope)
        THEN [acc EXCEPT
                !.convol = SetBlock(@, x * azim_region, (x + 1) * azim_region,
                                       y * gate_region, (y + 1) * gate_region),
                !.dopvol = SetBlock(@, x * azim_region, (x + 1) * azim_region,
                                       y * gate_region, (y + 1) * gate_region),
                !.nslopes = @ + 1]
        ELSE [acc EXCEPT !.nslopes = @ + 1]

\* for x in range(0, azim_zones): for y in range(0, gate_zones): zone k of
\* the row-major order is (k // gate_zones, k % gate_zones).
RECURSIVE ZoneLoop(_, _, _, _, _, _, _)
ZoneLoop(self, data, build, azim_zones, gate_zones, k, acc) ==
    IF azim_zones <= 0 \/ gate_zones <= 0 \/ k >= azim_zones * gate_zones
       \/ acc.outcome # "ok"
    THEN acc
    ELSE ZoneLoop(self, data, build, azim_zones, gate_zones, k + 1,
                  FilterZone(self, data, build, k \div gate_zones,
                             k % gate_zones, acc))

\* The region checks of filter_precip: "ok", or the exception raised.
RegionCheck(azims, gates, azim_region, gate_region) ==
    IF azim_region = 0 THEN "ZeroDivisionError"
    ELSE IF PyMod(azims, azim_region) # 0 THEN "ValueError:azim_region"
    ELSE IF gate_region = 0 THEN "ZeroDivisionError"
    ELSE IF PyMod(gates, gate_region) # 0 THEN "ValueError:gate_region"
    ELSE "ok"

\* filter_precip(convol_precip, dopvol_precip, iris_data) with the
\* configuration file holding config: the outcome, the two filter_3d
\* arrays afterwards and the number of zone slopes computed.  self is the
\* processor with self.config already reloaded.
filter_precip(self, cp, dp, data, build) ==
    LET azims == self.grid_info.azims
        gates == self.grid_info.gates
        azim_region == self.config.azim_region
        gate_region == self.config.gate_region
        check == RegionCheck(azims, gates, azim_region, gate_region)
        start == [outcome |-> "ok", convol |-> cp, dopvol |-> dp, nslopes |-> 0]
    IN  IF check # "ok"
        THEN [start EXCEPT !.outcome = check]
        ELSE ZoneLoop(self, data, build, PyFloorDiv(azims, azim_region),
                      PyFloorDiv(gates, gate_region), 0, start)

----------------------------------------------------------------------------
(* numpy broadcasting and numpy.ma *)

Max(a, b) == IF a >= b THEN a ELSE b

BroadcastOK(s1, s2) ==
    \A i \in 1..3 : s1[i] = s2[i] \/ s1[i] = 1 \/ s2[i] = 1

BroadcastShape(s1, s2) == [i \in 1..3 |-> Max(s1[i], s2[i])]

\* The cell of an array of shape s that cell c of the broadcast reads.
BroadcastCell(c, s) == [i \in 1..3 |-> IF s[i] = 1 THEN 0 ELSE c[i]]

\* numpy.logical_and(a, b), the conjunction, under the same broadcasting.
logical_and(a, b) ==
    IF ~BroadcastOK(a.shape, b.shape)
    THEN [kind |-> "raise", shape |-> <<>>, cells |-> {}]
    ELSE LET s == BroadcastShape(a.shape, b.shape)
         IN  [kind |-> "array", shape |-> s,
              cells |-> {c \in Cells(s) :
                            /\ BroadcastCell(c, a.shape) \in a.cells
                            /\ BroadcastCell(c, b.shape) \in b.cells}]

\* numpy.logical_or(a, b) of boolean arrays: "raise" when the shapes do
\* not broadcast.
logical_or(a, b) ==
    IF ~BroadcastOK(a.shape, b.shape)
    THEN [kind |-> "raise", shape |-> <<>>, cells |-> {}]
    ELSE LET s == BroadcastShape(a.shape, b.shape)
         IN  [kind |-> "array", shape |-> s,
              cells |-> {c \in Cells(s) :
                            \/ BroadcastCell(c, a.shape) \in a.cells
                            \/ BroadcastCell(c, b.shape) \in b.cells}]

\* C-order position of cell c in an array of shape s.
FlatIndex(c, s) == (c[1] * s[2] + c[2]) * s[3] + c[3]

\* numpy.reshape of a boolean array to a shape of the same size.
Reshape(arr, s) ==
    BoolArray(s, {c \in Cells(s) :
                    \E d \in arr.cells : FlatIndex(d, arr.shape) = FlatIndex(c, s)})

\* numpy.resize of a one-element boolean array to shape s.
Resize(arr, s) == BoolArray(s, IF arr.cells = {} THEN {} ELSE Cells(s))

\* numpy.ma.getmask: nomask, or the mask as a boolean array.
getmask(vol) ==
    IF vol.mask.has
    THEN [kind |-> "array", shape |-> vol.shape, cells |-> vol.mask.cells]
    ELSE [kind |-> "nomask", shape |-> <<>>, cells |-> {}]

\* numpy.ma.make_mask(m, shrink=True): a mask with no True is nomask.
make_mask(m) ==
    IF m.cells = {}
    THEN [kind |-> "nomask", shape |-> <<>>, cells |-> {}]
    ELSE [kind |-> "array", shape |-> m.shape, cells |-> m.cells]

\* numpy.ma.mask_or(m1, m2) for a boolean array m1 and m2 = getmask(...).
mask_or(m1, m2) ==
    IF m2.kind = "nomask"
    THEN make_mask(m1)
    ELSE LET r == logical_or(m1, m2)
         IN  IF r.kind = "raise" THEN r ELSE make_mask(r)

\* numpy.ma.array(vol, mask=m) with the default keep_mask=True: the data
\* and its shape are those of vol; a mask of another shape is resized
\* (one element) or reshaped (same size), else MaskError; the new mask is
\* or-ed with the mask vol already has.
ma_array(vol, m) ==
    IF m.kind = "nomask" THEN [kind |-> "array", arr |-> vol]
    ELSE LET nd == Size(vol.shape)
             nm == Size(m.shape)
             fit == IF m.shape = vol.shape THEN BoolArray(m.shape, m.cells)
                    ELSE IF nm = 1 THEN Resize(m, vol.shape)
                    ELSE Reshape(m, vol.shape)
         IN  IF m.shape # vol.shape /\ nm # 1 /\ nm # nd
             THEN [kind |-> "raise", arr |-> vol]
             ELSE [kind |-> "array",
                   arr |-> [vol EXCEPT !.mask =
                              [has |-> TRUE, cells |-> fit.cells \cup Masked(vol)]]]

----------------------------------------------------------------------------
(* IrisProcessor.impose_filter *)

\* The fusion that takes the filter alone as the new mask of each volume,
\* np.ma.array(volume.data, mask=filter):
impose_filter_filter_only(data, np_convol, np_dopvol) ==
    IF np_dopvol.shape # data.dopvol.shape \/ np_convol.shape # data.convol.shape
    THEN [outcome |-> "MaskError", data |-> data]
    ELSE [outcome |-> "ok",
          data |-> [convol |-> [data.convol EXCEPT !.mask =
                                  [has |-> TRUE, cells |-> np_convol.cells]],
                    dopvol |-> [data.dopvol EXCEPT !.mask =
                                  [has |-> TRUE, cells |-> np_dopvol.cells]]]]

\* impose_filter(iris_data, np_convol, np_dopvol): the outcome and
\* iris_data afterwards.  dopvol is assigned before convol, so a failure
\* on convol leaves the new dopvol in place.
impose_filter(data, np_convol, np_dopvol) ==
    LET dopvol_mask == mask_or(np_dopvol, getmask(data.dopvol))
        convol_mask == mask_or(np_convol, getmask(data.convol))
        new_dopvol  == ma_array(data.dopvol, dopvol_mask)
        new_convol  == ma_array(data.convol, convol_mask)
    IN  IF dopvol_mask.kind = "raise" \/ convol_mask.kind = "raise"
        THEN [outcome |-> "ValueError:broadcast", data |-> data]
        ELSE IF new_dopvol.kind = "raise"
        THEN [outcome |-> "MaskError", data |-> data]
        ELSE IF new_convol.kind = "raise"
        THEN [outcome |-> "MaskError",
              data |-> [data EXCEPT !.dopvol = new_dopvol.arr]]
        ELSE IF data.dopvol.shape # new_dopvol.arr.shape
        THEN [outcome |-> "ValueError:dopvol_shape",
              data |-> [convol |-> new_convol.arr, dopvol |-> new_dopvol.arr]]
        ELSE IF data.convol.shape # new_convol.arr.shape
        THEN [outcome |-> "ValueError:convol_shape",
              data |-> [convol |-> new_convol.arr, dopvol |-> new_dopvol.arr]]
        ELSE [outcome |-> "ok",
              data |-> [convol |-> new_convol.arr, dopvol |-> new_dopvol.arr]]

----------------------------------------------------------------------------
(* Processor.__init__ and IrisProcessor.__init__ *)

DefaultConfig == [azim_region |-> 1, gate_region |-> 1, max_dbz_per_degree |-> 0]

\* The instance before __init__ has assigned anything.  steps lists the
\* load / verify methods in the order they completed.
BlankProcessor ==
    [grid_info |-> [azims |-> 0, gates |-> 0], config |-> DefaultConfig,
     plotter |-> FALSE, lats |-> <<>>, lons |-> <<>>, altitude |-> <<>>,
     convol_angles |-> <<>>, dopvol_angles |-> <<>>,
     convol_clutter |-> Zeros(<<0, 0, 0>>), dopvol_clutter |-> Zeros(<<0, 0, 0>>),
     steps |-> <<>>]

\* lats, lons and altitude hold the shapes of the arrays read.
load_universal_calib(self, file) ==
    [self EXCEPT !.lats = file.lats, !.lons = file.lons,
                 !.altitude = file.altitude,
                 !.steps = Append(@, "load_universal_calib")]

\* The verification restricted to lats and lons:
verify_universal_calib_no_altitude(self) ==
    LET polar_dims == <<self.grid_info.azims, self.grid_info.gates>>
    IN  IF self.lats # polar_dims THEN "ValueError:lats"
        ELSE IF self.lons # polar_dims THEN "ValueError:lons"
        ELSE "ok"

\* lats, lons and altitude must all have the polar dimensions.
verify_universal_calib(self) ==
    LET polar_dims == <<self.grid_info.azims, self.grid_info.gates>>
    IN  IF self.lats # polar_dims THEN "ValueError:lats"
        ELSE IF self.lons # polar_dims THEN "ValueError:lons"
        ELSE IF self.altitude # polar_dims THEN "ValueError:altitude"
        ELSE "ok"

Processor__init__(self0, grid_info, config, file) ==
    LET self1 == [self0 EXCEPT !.config = config, !.grid_info = grid_info,
                               !.plotter = FALSE]
        self2 == load_universal_calib(self1, file)
        check == verify_universal_calib(self2)
    IN  IF ~file.exists
        THEN [outcome |-> "FileNotFoundError", self |-> self1]
        ELSE IF check # "ok"
        THEN [outcome |-> check, self |-> self2]
        ELSE [outcome |-> "ok",
              self |-> [self2 EXCEPT !.steps = Append(@, "verify_universal_calib")]]

load_specific_calib(self, file) ==
    [self EXCEPT !.convol_angles = file.convol_angles,
                 !.dopvol_angles = file.dopvol_angles,
                 !.convol_clutter = file.convol_clutter,
                 !.dopvol_clutter = file.dopvol_clutter,
                 !.steps = Append(@, "load_specific_calib")]

verify_specific_calib(self) ==
    LET num_convol == Len(self.convol_angles)
        num_dopvol == Len(self.dopvol_angles)
        azims == self.grid_info.azims
        gates == self.grid_info.gates
    IN  IF num_convol <= 1 THEN "ValueError:convol_angles"
        ELSE IF num_dopvol <= 1 THEN "ValueError:dopvol_angles"
        ELSE IF self.convol_clutter.shape # <<num_convol, azims, gates>>
        THEN "ValueError:convol_clutter"
        ELSE IF self.dopvol_clutter.shape # <<num_dopvol, azims, gates>>
        THEN "ValueError:dopvol_clutter"
        ELSE "ok"

IrisProcessor__init__(grid_info, config, file) ==
    LET base  == Processor__init__(BlankProcessor, grid_info, config, file)
        self3 == load_specific_calib(base.self, file)
        check == verify_specific_calib(self3)
    IN  IF base.outcome # "ok" THEN base
        ELSE IF check # "ok" THEN [outcome |-> check, self |-> self3]
        ELSE [outcome |-> "ok",
              self |-> [self3 EXCEPT !.steps = Append(@, "verify_specific_calib")]]

\* Processor.init_plotter: the RadialPlotter is created.
init_plotter(self) == [self EXCEPT !.plotter = TRUE]

----------------------------------------------------------------------------
(* IrisProcessor.process_set *)

\* PrecipFilter(metadata, grid_info, angles).filter_3d
PrecipFilter(grid_info, angles) ==
    Zeros(<<Len(angles), grid_info.azims, grid_info.gates>>)

\* plot_iris raises when the plotter has not been initialized.
plot_iris(self) == IF self.plotter THEN "ok" ELSE "ValueError:plotter"

\* process_set on the filled IrisData data: the outcome, the data and the
\* two PrecipFilter arrays when the call returns or raises.
process_set(self, data, build) ==
    LET convol_precip0 == PrecipFilter(self.grid_info, self.convol_angles)
        dopvol_precip0 == PrecipFilter(self.grid_info, self.dopvol_angles)
        none == [outcome |-> "ok", data |-> data, convol_precip |-> convol_precip0,
                 dopvol_precip |-> dopvol_precip0, nslopes |-> 0]
        fp == filter_precip(self, convol_precip0, dopvol_precip0, data, build)
        filtered == [none EXCEPT !.convol_precip = fp.convol,
                                 !.dopvol_precip = fp.dopvol,
                                 !.nslopes = fp.nslopes]
        convol_joint == logical_or(self.convol_clutter, fp.convol)
        dopvol_joint == logical_or(self.dopvol_clutter, fp.dopvol)
        imposed == impose_filter(data, convol_joint, dopvol_joint)
    IN  IF plot_iris(self) # "ok"
        THEN [none EXCEPT !.outcome = plot_iris(self)]
        ELSE IF fp.outcome # "ok"
        THEN [filtered EXCEPT !.outcome = fp.outcome]
        ELSE IF convol_joint.kind = "raise" \/ dopvol_joint.kind = "raise"
        THEN [filtered EXCEPT !.outcome = "ValueError:broadcast"]
        ELSE [filtered EXCEPT !.outcome = imposed.outcome, !.data = imposed.data]

----------------------------------------------------------------------------
(* Inputs *)

Grids == {[azims |-> a, gates |-> g] : a \in 1..MaxAzims, g \in 1..MaxGates}

\* Scan angles 1, 2, ..., n, and n identical angles.
Ramp(n) == [i \in 1..n |-> i]

Level(n) == [i \in 1..n |-> 1]

AngleLists(lo) == {Ramp(n) : n \in lo..MaxElevs} \cup {Level(lo)}

\* The numpy / scipy builds: how a masked sample reaches linregress, and what linregress
\* does when all angles are identical.
Builds == [masked : {"nan", "zero"}, degenerate : {"raise", "nan"}]

FlatVolume(shape) == MaskedArray(shape, [c \in Cells(shape) |-> 0], NoMask)

\* A volume that is 0 dBZ everywhere but for one cell, which holds v dBZ.
HotVolume(shape, cell, v) ==
    MaskedArray(shape, [c \in Cells(shape) |-> IF c = cell THEN v ELSE 0], NoMask)

\* A volume that is 0 dBZ everywhere with one cell masked.
HiddenVolume(shape, cell) ==
    MaskedArray(shape, [c \in Cells(shape) |-> 0], [has |-> TRUE, cells |-> {cell}])

\* The cells of the lowest and of the highest scan.
EndScans(shape) == {c \in Cells(shape) : c[1] \in {0, shape[1] - 1}}

\* Flat, one hot cell of 1 or MaxDbz dBZ in the lowest or the highest scan,
\* or one masked cell in the lowest scan.
Volumes(shape) ==
    {FlatVolume(shape)}
    \cup {HotVolume(shape, c, v) : c \in EndScans(shape), v \in {1, MaxDbz}}
    \cup {HiddenVolume(shape, c) : c \in {d \in Cells(shape) : d[1] = 0}}

\* The configurations filter_precip reloads with both region sizes
\* positive, and those with a zero or negative size (no slope is compared
\* under these, so one threshold stands for all).
Configs ==
    [azim_region : 1..MaxRegion, gate_region : 1..MaxRegion,
     max_dbz_per_degree : (-1)..MaxSlope]

NonPositiveConfigs ==
    {c \in [azim_region : (-MaxRegion)..MaxRegion,
            gate_region : (-MaxRegion)..MaxRegion, max_dbz_per_degree : {0}] :
        c.azim_region <= 0 \/ c.gate_region <= 0}

LastCell(shape) == <<shape[1] - 1, shape[2] - 1, shape[3] - 1>>

\* A boolean array of the shape with no cell set, or only its last one.
SparseArrays(shape) == {Zeros(shape), BoolArray(shape, {LastCell(shape)})}

\* A calibration file that passes both verifications.
CalibFile(grid, convol_angles, dopvol_angles, convol_clutter, dopvol_clutter) ==
    [exists |-> TRUE,
     lats |-> <<grid.azims, grid.gates>>, lons |-> <<grid.azims, grid.gates>>,
     altitude |-> <<grid.azims, grid.gates>>,
     convol_angles |-> convol_angles, dopvol_angles |-> dopvol_angles,
     convol_clutter |-> convol_clutter, dopvol_clutter |-> dopvol_clutter]

ConvolShape(self) ==
    <<Len(self.convol_angles), self.grid_info.azims, self.grid_info.gates>>

DopvolShape(self) ==
    <<Len(self.dopvol_angles), self.grid_info.azims, self.grid_info.gates>>

NoCall == [op |-> "none", outcome |-> "none"]

\* No file at the output path.
NoFile == [exists |-> FALSE, closed |-> TRUE, attrs |-> <<>>, dims |-> <<>>,
           vars |-> <<>>]

\* No writer has been constructed.
NoOutput == [constructed |-> FALSE]

NoData == [convol |-> FlatVolume(<<0, 0, 0>>), dopvol |-> FlatVolume(<<0, 0, 0>>)]

----------------------------------------------------------------------------
(* The contamination detector: filter_precip called on a constructed      *)
(* processor, and run a second time on the same set with one volume's     *)
(* values replaced.                                                        *)

\* The processors filter_precip is called on: constructed from a valid
\* calibration file with empty clutter maps.
PrecipProcessors ==
    {IrisProcessor__init__(g, DefaultConfig,
        CalibFile(g, ca, Ramp(Len(ca)), Zeros(<<Len(ca), g.azims, g.gates>>),
                  Zeros(<<Len(ca), g.azims, g.gates>>))).self :
     g \in Grids, ca \in AngleLists(2)}

InitPrecip ==
    /\ proc \in PrecipProcessors
    /\ iris_data = NoData
    /\ convol_precip = Zeros(<<0, 0, 0>>)
    /\ dopvol_precip = Zeros(<<0, 0, 0>>)
    /\ call = NoCall
    /\ prev = NoCall
    /\ output = NoOutput
    /\ fs = NoFile

\* filter_precip(convol_precip, dopvol_precip, iris_data) with the
\* configuration file holding config.
RunFilterPrecip(build, config, cp, dp, data) ==
    LET self == [proc EXCEPT !.config = config]
        r == filter_precip(self, cp, dp, data, build)
    IN  /\ proc' = self
        /\ iris_data' = data
        /\ convol_precip' = r.convol
        /\ dopvol_precip' = r.dopvol
        /\ call' = [op |-> "filter_precip", outcome |-> r.outcome,
                    build |-> build, nslopes |-> r.nslopes,
                    convol_precip |-> cp, dopvol_precip |-> dp]
        /\ UNCHANGED outVars

SnapshotRun ==
    [op |-> call.op, outcome |-> call.outcome, build |-> call.build,
     data |-> iris_data,
     convol_precip |-> convol_precip, dopvol_precip |-> dopvol_precip]

CallFilterPrecip ==
    /\ call.op = "none"
    /\ \E build \in Builds, config \in Configs,
          cv \in Volumes(ConvolShape(proc)),
          cp \in SparseArrays(ConvolShape(proc)) :
         /\ RunFilterPrecip(build, config, cp,
                BoolArray(DopvolShape(proc),
                          {c \in Cells(DopvolShape(proc)) : c \in cp.cells}),
                [convol |-> cv, dopvol |-> FlatVolume(DopvolShape(proc))])
         /\ prev' = prev

\* filter_precip with a zero or negative region size configured.
CallFilterPrecipNonPositive ==
    /\ call.op = "none"
    /\ \E build \in Builds, config \in NonPositiveConfigs,
          cv \in {FlatVolume(ConvolShape(proc)),
                  HotVolume(ConvolShape(proc), LastCell(ConvolShape(proc)), MaxDbz)},
          cp \in SparseArrays(ConvolShape(proc)) :
         /\ RunFilterPrecip(build, config, cp,
                BoolArray(DopvolShape(proc),
                          {c \in Cells(DopvolShape(proc)) : c \in cp.cells}),
                [convol |-> cv, dopvol |-> FlatVolume(DopvolShape(proc))])
         /\ prev' = prev

\* A second run that differs from the first only in the CONVOL values.
RerunOtherConvol ==
    /\ call.op = "filter_precip" /\ call.outcome = "ok" /\ prev.op = "none"
    /\ iris_data.convol = FlatVolume(ConvolShape(proc))
    /\ call.convol_precip.cells = {}
    /\ \E cv \in Volumes(ConvolShape(proc)) \ {iris_data.convol} :
         /\ RunFilterPrecip(call.build, proc.config, call.convol_precip, call.dopvol_precip,
                            [iris_data EXCEPT !.convol = cv])
         /\ prev' = SnapshotRun

\* A second run that differs from the first only in the DOPVOL values.
RerunOtherDopvol ==
    /\ call.op = "filter_precip" /\ call.outcome = "ok" /\ prev.op = "none"
    /\ call.convol_precip.cells = {}
    /\ \E c \in {<<0, 0, 0>>}, v \in {MaxDbz} :
         /\ RunFilterPrecip(call.build, proc.config, call.convol_precip, call.dopvol_precip,
                [iris_data EXCEPT !.dopvol = HotVolume(DopvolShape(proc), c, v)])
         /\ prev' = SnapshotRun

NextPrecip ==
    \/ CallFilterPrecip
    \/ CallFilterPrecipNonPositive
    \/ RerunOtherConvol
    \/ RerunOtherDopvol

SpecPrecip == InitPrecip /\ [][NextPrecip]_vars

----------------------------------------------------------------------------
(* Mask fusion: impose_filter called with masks of any shape, and the     *)
(* whole of process_set.                                                   *)

\* The volumes fusion is run on: flat, one hot cell in the top scan, or
\* one cell already masked in the source.
FusionVolumes(shape) ==
    {FlatVolume(shape), HotVolume(shape, LastCell(shape), MaxDbz),
     HotVolume(shape, <<shape[1] - 1, 0, 0>>, MaxDbz),
     HiddenVolume(shape, <<0, 0, 0>>), HiddenVolume(shape, LastCell(shape))}

\* Ramp angles never give linregress a degenerate abscissa.
FusionBuilds == {b \in Builds : b.degenerate = "raise"}

\* The shapes of the masks a caller hands to impose_filter for a volume of
\* the shape: the same, one element, one scan, azimuths and gates swapped,
\* and one scan too many.
MaskShapes(shape) ==
    {shape, <<1, 1, 1>>, <<1, shape[2], shape[3]>>,
     <<shape[1], shape[3], shape[2]>>, <<shape[1] + 1, shape[2], shape[3]>>}

MaskArgs(shape) == UNION {SparseArrays(s) : s \in MaskShapes(shape)}

\* The processors fusion runs on: the clutter maps are empty or hold one
\* cell.
FusionProcessorsOn(g, n) ==
    {IrisProcessor__init__(g, DefaultConfig,
        CalibFile(g, Ramp(n), Ramp(n), cc, dc)).self :
     cc \in {Zeros(<<n, g.azims, g.gates>>),
             BoolArray(<<n, g.azims, g.gates>>, {<<0, 0, 0>>})},
     dc \in SparseArrays(<<n, g.azims, g.gates>>)}

FusionProcessors ==
    UNION {FusionProcessorsOn(g, n) : g \in Grids, n \in 2..MaxElevs}

InitFusion ==
    /\ proc \in FusionProcessors
    /\ iris_data = NoData
    /\ convol_precip = Zeros(<<0, 0, 0>>)
    /\ dopvol_precip = Zeros(<<0, 0, 0>>)
    /\ call = NoCall
    /\ prev = NoCall
    /\ output = NoOutput
    /\ fs = NoFile

InitPlotter ==
    /\ ~proc.plotter
    /\ call.op = "none"
    /\ proc' = init_plotter(proc)
    /\ UNCHANGED <<dataVars, call, outVars>>

\* impose_filter(iris_data, np_convol, np_dopvol), called directly.
CallImposeFilter ==
    /\ call.op = "none"
    /\ \E cv \in {FlatVolume(ConvolShape(proc)),
                  HiddenVolume(ConvolShape(proc), <<0, 0, 0>>)},
          dv \in {FlatVolume(DopvolShape(proc)),
                  HiddenVolume(DopvolShape(proc), <<0, 0, 0>>)},
          np_convol \in MaskArgs(ConvolShape(proc)),
          np_dopvol \in MaskArgs(DopvolShape(proc)) :
         LET data == [convol |-> cv, dopvol |-> dv]
             r == impose_filter(data, np_convol, np_dopvol)
         IN  /\ iris_data' = r.data
             /\ call' = [op |-> "impose_filter", outcome |-> r.outcome,
                         data |-> data, np_convol |-> np_convol,
                         np_dopvol |-> np_dopvol]
    /\ UNCHANGED <<proc, convol_precip, dopvol_precip, prev, outVars>>

\* process_set(iris_set): IrisData(iris_set).fill_grids() yields data and
\* the configuration file holds config.
CallProcessSet ==
    /\ call.op = "none"
    /\ \E build \in FusionBuilds, config \in Configs,
          cv \in FusionVolumes(ConvolShape(proc)),
          dv \in {FlatVolume(DopvolShape(proc)),
                  HotVolume(DopvolShape(proc), LastCell(DopvolShape(proc)), MaxDbz),
                  HiddenVolume(DopvolShape(proc), <<0, 0, 0>>)} :
         LET data == [convol |-> cv, dopvol |-> dv]
             \* filter_precip reloads the configuration once the raw
             \* plots are done
             self == IF plot_iris(proc) = "ok"
                     THEN [proc EXCEPT !.config = config] ELSE proc
             r == process_set(self, data, build)
         IN  /\ proc' = self
             /\ iris_data' = r.data
             /\ convol_precip' = r.convol_precip
             /\ dopvol_precip' = r.dopvol_precip
             /\ call' = [op |-> "process_set", outcome |-> r.outcome,
                         build |-> build, data |-> data, nslopes |-> r.nslopes]
    /\ UNCHANGED <<prev, outVars>>

NextFusion == InitPlotter \/ CallImposeFilter \/ CallProcessSet

SpecFusion == InitFusion /\ [][NextFusion]_vars

----------------------------------------------------------------------------
(* Properties of mask fusion *)

\* C1: impose_filter is monotonic and shape-preserving.  Whatever masks it
\* is handed and however it ends, every cell of CONVOL and of DOPVOL that
\* was masked before the call is masked after it (a volume without a mask
\* included), and each volume has the shape it had before.
C1_FusionMonotonic ==
    call.op = "impose_filter" =>
        /\ Masked(call.data.convol) \subseteq Masked(iris_data.convol)
        /\ Masked(call.data.dopvol) \subseteq Masked(iris_data.dopvol)
        /\ iris_data.convol.shape = call.data.convol.shape
        /\ iris_data.dopvol.shape = call.data.dopvol.shape
        /\ iris_data.convol.data = call.data.convol.data
        /\ iris_data.dopvol.data = call.data.dopvol.data

\* impose_filter returned; CONVOL kept its masked cell and gained another
\* from a mask that had to be reshaped, and DOPVOL, which had no mask, has
\* one now.
C1_Witness ==
    /\ call.op = "impose_filter" /\ call.outcome = "ok"
    /\ Masked(call.data.convol) # {}
    /\ Masked(call.data.convol) \subseteq Masked(iris_data.convol)
    /\ Masked(call.data.convol) # Masked(iris_data.convol)
    /\ call.np_convol.shape # call.data.convol.shape
    /\ ~call.data.dopvol.mask.has
    /\ Masked(iris_data.dopvol) # {}

\* The zones of the grid that filter_precip visits under the processor's
\* configuration.
Zones ==
    LET ar == proc.config.azim_region
        gr == proc.config.gate_region
    IN  IF ar = 0 \/ gr = 0 THEN {}
        ELSE {<<x, y>> : x \in 0..(PyFloorDiv(proc.grid_info.azims, ar) - 1),
                         y \in 0..(PyFloorDiv(proc.grid_info.gates, gr) - 1)}

\* Cell c lies in zone z.
InZone(c, z) ==
    /\ z[1] * proc.config.azim_region <= c[2]
    /\ c[2] < (z[1] + 1) * proc.config.azim_region
    /\ z[2] * proc.config.gate_region <= c[3]
    /\ c[3] < (z[2] + 1) * proc.config.gate_region

\* The slope fitted for zone z on the CONVOL volume vol exceeds max_slope.
Contaminated(vol, z) ==
    LET slope == determine_zone_slope(proc, [convol |-> vol, dopvol |-> vol],
                                      z[1], z[2], call.build)
    IN  /\ slope.kind = "num"
        /\ slope.num > proc.config.max_dbz_per_degree * slope.den

\* C2: after process_set completes, a cell of a volume is masked if and
\* only if it was masked in the source volume, or it is set in the clutter
\* mask of that scan family, or it lies in a zone flagged as contaminated.
C2_PipelineMask ==
    (call.op = "process_set" /\ call.outcome = "ok") =>
        /\ \A c \in Cells(iris_data.convol.shape) :
             c \in Masked(iris_data.convol) <=>
                \/ c \in Masked(call.data.convol)
                \/ c \in proc.convol_clutter.cells
                \/ \E z \in Zones : InZone(c, z) /\ Contaminated(call.data.convol, z)
        /\ \A c \in Cells(iris_data.dopvol.shape) :
             c \in Masked(iris_data.dopvol) <=>
                \/ c \in Masked(call.data.dopvol)
                \/ c \in proc.dopvol_clutter.cells
                \/ \E z \in Zones : InZone(c, z) /\ Contaminated(call.data.convol, z)

\* process_set completed on a DOPVOL volume with a masked source cell, a
\* clutter cell and a contaminated zone, all three distinct, and with a cell
\* left unmasked.
C2_Witness ==
    /\ call.op = "process_set" /\ call.outcome = "ok"
    /\ \E a \in Masked(call.data.dopvol), b \in proc.dopvol_clutter.cells,
          z \in Zones :
         /\ a # b
         /\ Contaminated(call.data.convol, z)
         /\ ~InZone(a, z) /\ ~InZone(b, z)
    /\ Masked(iris_data.dopvol) # Cells(iris_data.dopvol.shape)

----------------------------------------------------------------------------
(* Properties of the contamination detector *)

\* r does not evenly divide n.
NotDivides(n, r) == r = 0 \/ \A q \in (-n)..n : q * r # n

\* C3: for region sizes that evenly divide the grid and contamination
\* masks that start all False, after filter_precip every zone is constant
\* in both masks: its cells, at every elevation, are True exactly when the
\* slope fitted for the zone is strictly greater than max_slope.  With
\* positive region sizes the zones tile the grid: every cell lies in
\* exactly one of the azim_zones * gate_zones zones.
C3_ZoneBlocks ==
    (/\ call.op = "filter_precip" /\ call.outcome = "ok"
     /\ call.convol_precip.cells = {} /\ call.dopvol_precip.cells = {}) =>
        /\ \A z \in Zones :
             LET flagged == Contaminated(iris_data.convol, z)
             IN  /\ \A c \in Cells(convol_precip.shape) :
                      InZone(c, z) => (c \in convol_precip.cells <=> flagged)
                 /\ \A c \in Cells(dopvol_precip.shape) :
                      InZone(c, z) => (c \in dopvol_precip.cells <=> flagged)
        /\ (proc.config.azim_region > 0 /\ proc.config.gate_region > 0) =>
             /\ \A c \in Cells(convol_precip.shape) \cup Cells(dopvol_precip.shape) :
                  Cardinality({z \in Zones : InZone(c, z)}) = 1
             /\ Cardinality(Zones) * proc.config.azim_region * proc.config.gate_region
                  = proc.grid_info.azims * proc.grid_info.gates

\* filter_precip completed on fresh masks with several zones of several
\* cells, one of them contaminated and another not.
C3_Witness ==
    /\ call.op = "filter_precip" /\ call.outcome = "ok"
    /\ call.convol_precip.cells = {} /\ call.dopvol_precip.cells = {}
    /\ proc.config.azim_region > 1
    /\ Cardinality(Zones) > 1
    /\ \E z1, z2 \in Zones :
         /\ Contaminated(iris_data.convol, z1)
         /\ ~Contaminated(iris_data.convol, z2)
         /\ \E c \in convol_precip.cells : InZone(c, z1)

\* The two runs recorded differ at most in the volume named.
SecondRun == prev.op = "filter_precip" /\ call.op = "filter_precip"

\* C4 as claimed: the DOPVOL contamination mask is determined by the
\* DOPVOL volume, so two runs of filter_precip that differ only in the
\* CONVOL values produce the same DOPVOL contamination mask.
C4_DopvolMaskOwnComputation ==
    (SecondRun /\ prev.data.dopvol = iris_data.dopvol) =>
        dopvol_precip = prev.dopvol_precip

\* C4, amended: the zones are computed once, on the CONVOL volume, and
\* written to both masks, so two runs of filter_precip that differ only
\* in the DOPVOL values end alike and produce the same CONVOL and the same
\* DOPVOL contamination mask.
C4_MasksFromConvolOnly ==
    (SecondRun /\ prev.data.convol = iris_data.convol) =>
        /\ call.outcome = prev.outcome
        /\ convol_precip = prev.convol_precip
        /\ dopvol_precip = prev.dopvol_precip

\* Two completed runs on the same CONVOL and different DOPVOL values, with
\* a contaminated zone in the masks.
C4_Witness ==
    /\ SecondRun /\ call.outcome = "ok"
    /\ prev.data.convol = iris_data.convol
    /\ prev.data.dopvol # iris_data.dopvol
    /\ dopvol_precip.cells # {}
    /\ dopvol_precip.cells # Cells(dopvol_precip.shape)

\* C9: whenever azim_region does not evenly divide azims, or gate_region
\* does not evenly divide gates (zero and negative sizes included),
\* filter_precip raises the ValueError that names the grid extent before
\* any zone slope is computed, and leaves both contamination masks as they
\* were.
C9_InvalidRegionRejected ==
    (/\ call.op = "filter_precip"
     /\ \/ NotDivides(proc.grid_info.azims, proc.config.azim_region)
        \/ NotDivides(proc.grid_info.gates, proc.config.gate_region)) =>
        /\ call.outcome \in {"ValueError:azim_region", "ValueError:gate_region"}
        /\ call.nslopes = 0
        /\ convol_precip = call.convol_precip
        /\ dopvol_precip = call.dopvol_precip

----------------------------------------------------------------------------
(* Construction: IrisProcessor on a calibration file of any shape, and    *)
(* the unimplemented format variants.                                      *)

\* Python's instantiation cls(*args) of a class with the abstract methods
\* left unimplemented, the positional parameters of __init__ and the
\* outcome of its body: abc refuses an abstract class, then the arguments
\* are bound, then the body runs.
Instantiate(cls, args) ==
    IF cls.abstract # {} THEN "TypeError:abstract"
    ELSE IF Len(args) # Len(cls.params) THEN "TypeError:arguments"
    ELSE cls.body

\* OdimOutput and NexradOutput: BaseOutput declares no abstract method;
\* __init__(self, metadata, grid_info) raises NotImplementedError at once.
UnimplementedOutput ==
    [abstract |-> {}, params |-> <<"metadata", "grid_info">>,
     body |-> "NotImplementedError"]

\* OdimProcessor and NexradProcessor: neither implements the two abstract
\* methods of Processor; __init__(self) calls super().__init__() without
\* the two arguments Processor.__init__ requires, before a raise of the
\* undefined name NotImplmentedError.
UnimplementedProcessor ==
    [abstract |-> {"load_specific_calib", "verify_specific_calib"},
     params |-> <<>>,
     body |-> IF Len(<<>>) # Len(<<"metadata", "grid_info">>)
              THEN "TypeError:arguments" ELSE "NameError"]

Unimplemented ==
    [OdimOutput |-> UnimplementedOutput, NexradOutput |-> UnimplementedOutput,
     OdimProcessor |-> UnimplementedProcessor,
     NexradProcessor |-> UnimplementedProcessor]

ArgLists == {<<>>, <<"metadata">>, <<"metadata", "grid_info">>}

\* The shapes a 2-D calibration field of the grid may have in the file.
PolarShapes(g) ==
    {<<g.azims, g.gates>>, <<g.azims + 1, g.gates>>, <<g.azims, g.gates + 1>>}

\* The shapes a clutter map may have for n angles.
ClutterShapes(g, n) ==
    {<<n, g.azims, g.gates>>, <<n + 1, g.azims, g.gates>>,
     <<n, g.azims, g.gates + 1>>}

InitCalib ==
    /\ proc = BlankProcessor
    /\ iris_data = NoData
    /\ convol_precip = Zeros(<<0, 0, 0>>)
    /\ dopvol_precip = Zeros(<<0, 0, 0>>)
    /\ call = NoCall
    /\ prev = NoCall
    /\ output = NoOutput
    /\ fs = NoFile

\* IrisProcessor(metadata, grid_info) with the calibration file holding
\* file.  proc is bound only when the constructor returns; the instance as
\* the constructor left it is recorded in call.self.
ConstructIrisProcessor ==
    /\ call.op = "none"
    /\ \E g \in Grids, exists \in BOOLEAN, nc \in 0..MaxElevs, nd \in 0..MaxElevs :
       \E lats \in PolarShapes(g), lons \in PolarShapes(g),
          altitude \in PolarShapes(g), cs \in ClutterShapes(g, nc),
          ds \in ClutterShapes(g, nd) :
         LET file == [exists |-> exists, lats |-> lats, lons |-> lons,
                      altitude |-> altitude, convol_angles |-> Ramp(nc),
                      dopvol_angles |-> Ramp(nd), convol_clutter |-> Zeros(cs),
                      dopvol_clutter |-> Zeros(ds)]
             r == IrisProcessor__init__(g, DefaultConfig, file)
         IN  /\ proc' = IF r.outcome = "ok" THEN r.self ELSE proc
             /\ call' = [op |-> "IrisProcessor", outcome |-> r.outcome,
                         grid_info |-> g, file |-> file, self |-> r.self]
    /\ UNCHANGED <<dataVars, outVars>>

\* OdimOutput(...), NexradOutput(...), OdimProcessor(...) or
\* NexradProcessor(...) with any arguments.  attrs are the attributes the
\* instance has been given when the constructor ends.
ConstructUnimplemented ==
    /\ call.op = "none"
    /\ \E name \in DOMAIN Unimplemented, args \in ArgLists :
         call' = [op |-> name, outcome |-> Instantiate(Unimplemented[name], args),
                  args |-> args, attrs |-> {}]
    /\ UNCHANGED <<dataVars, proc, outVars>>

NextCalib == ConstructIrisProcessor \/ ConstructUnimplemented

SpecCalib == InitCalib /\ [][NextCalib]_vars

\* The calibration file holds what a usable store needs.
CalibrationValid(g, file) ==
    /\ file.exists
    /\ file.lats = <<g.azims, g.gates>>
    /\ file.lons = <<g.azims, g.gates>>
    /\ file.altitude = <<g.azims, g.gates>>
    /\ Len(file.convol_angles) >= 2
    /\ Len(file.dopvol_angles) >= 2
    /\ file.convol_clutter.shape = <<Len(file.convol_angles), g.azims, g.gates>>
    /\ file.dopvol_clutter.shape = <<Len(file.dopvol_angles), g.azims, g.gates>>

\* Step a comes before step b wherever b occurs in steps.
Before(steps, a, b) ==
    \A j \in 1..Len(steps) :
        steps[j] = b => \E i \in 1..(j - 1) : steps[i] = a

\* C8: IrisProcessor(...) returns an instance exactly when the calibration
\* file exists, lats, lons and altitude have shape (azims, gates), both
\* angle lists hold at least 2 angles and both clutter maps have shape
\* (number of angles, azims, gates); otherwise it raises and no instance is
\* bound.  The universal verification has passed before the specific
\* calibration is loaded or verified.
C8_CalibrationGate ==
    call.op = "IrisProcessor" =>
        /\ call.outcome = "ok" <=> CalibrationValid(call.grid_info, call.file)
        /\ call.outcome # "ok" => proc = BlankProcessor
        /\ call.outcome = "ok" =>
             /\ proc = call.self
             /\ proc.steps = <<"load_universal_calib", "verify_universal_calib",
                               "load_specific_calib", "verify_specific_calib">>
        /\ Before(call.self.steps, "verify_universal_calib", "load_specific_calib")
        /\ Before(call.self.steps, "verify_universal_calib", "verify_specific_calib")

\* The constructor returned an instance.
C8_Witness ==
    /\ call.op = "IrisProcessor" /\ call.outcome = "ok"
    /\ proc.lats = <<proc.grid_info.azims, proc.grid_info.gates>>
    /\ Len(proc.convol_angles) >= 2

\* C10: constructing OdimOutput, NexradOutput, OdimProcessor or
\* NexradProcessor, with any arguments, fails with NotImplementedError and
\* never otherwise, with no attribute of the instance set.
C10_Unimplemented ==
    call.op \in DOMAIN Unimplemented =>
        /\ call.outcome = "NotImplementedError"
        /\ call.attrs = {}

----------------------------------------------------------------------------
(* bugtracker/io/models.py: BaseOutput and IrisOutput.                     *)
(*                                                                         *)
(* An array of the writer is [none, shape, value]: None, or an array of    *)
(* the shape holding value in every cell.  An elevation vector is          *)
(* [none, seq].  A netCDF variable is [shape, written, value]; one that    *)
(* was never assigned reads back as fill values.                           *)

None == [none |-> TRUE, shape |-> <<>>, value |-> 0]

Array(shape, value) == [none |-> FALSE, shape |-> shape, value |-> value]

NoVector == [none |-> TRUE, seq |-> <<>>]

Vector(seq) == [none |-> FALSE, seq |-> seq]

Product(shape) ==
    IF Len(shape) = 0 THEN 1
    ELSE IF Len(shape) = 1 THEN shape[1]
    ELSE IF Len(shape) = 2 THEN shape[1] * shape[2]
    ELSE shape[1] * shape[2] * shape[3]

\* BaseOutput.__init__ and IrisOutput.__init__: the dbz attributes do not
\* exist until populate.
IrisOutput__init__(metadata, grid_info) ==
    [constructed |-> TRUE, metadata |-> metadata, grid_info |-> grid_info,
     radar_filetype |-> "iris", populated |-> FALSE,
     dbz_filtered |-> None, dbz_unfiltered |-> None, joint_product |-> None,
     dbz_elevs |-> NoVector, dop_elevs |-> NoVector,
     velocity |-> None, spectrum_width |-> None, total_power |-> None]

populate(self, data) ==
    [self EXCEPT !.populated = TRUE,
                 !.dbz_filtered = data.dbz_filtered,
                 !.dbz_unfiltered = data.dbz_unfiltered,
                 !.joint_product = data.joint_product,
                 !.dbz_elevs = data.dbz_elevs,
                 !.dop_elevs = data.dopvol_elevs,
                 !.velocity = data.velocity,
                 !.spectrum_width = data.spectrum_width,
                 !.total_power = data.total_power]

\* The validation restricted to the None checks:
BaseOutput_validate_no_shape_check(self) ==
    LET azims == self.grid_info.azims
        gates == self.grid_info.gates
        joint == self.joint_product.shape
    IN  IF ~self.populated THEN "AttributeError"
        ELSE IF self.dbz_filtered.none THEN "ValueError:dbz_filtered_null"
        ELSE IF self.dbz_unfiltered.none THEN "ValueError:dbz_unfiltered_null"
        ELSE IF Len(self.dbz_filtered.shape) < 3 THEN "IndexError"
        ELSE IF self.dbz_filtered.shape[2] # azims THEN "ValueError:azims"
        ELSE IF self.dbz_filtered.shape[3] # gates THEN "ValueError:gates"
        ELSE IF self.joint_product.none THEN "ValueError:joint_null"
        ELSE IF Len(joint) # 2 THEN "ValueError:joint_2d"
        ELSE IF azims # joint[1] \/ gates # joint[2] THEN "ValueError:joint_dims"
        ELSE "ok"

BaseOutput_validate(self) ==
    LET azims == self.grid_info.azims
        gates == self.grid_info.gates
        joint == self.joint_product.shape
    IN  IF ~self.populated THEN "AttributeError"
        ELSE IF self.dbz_filtered.none THEN "ValueError:dbz_filtered_null"
        ELSE IF self.dbz_unfiltered.none THEN "ValueError:dbz_unfiltered_null"
        ELSE IF self.dbz_filtered.shape # self.dbz_unfiltered.shape
        THEN "ValueError:dbz_shape"
        ELSE IF Len(self.dbz_filtered.shape) < 3 THEN "IndexError"
        ELSE IF self.dbz_filtered.shape[2] # azims THEN "ValueError:azims"
        ELSE IF self.dbz_filtered.shape[3] # gates THEN "ValueError:gates"
        ELSE IF self.joint_product.none THEN "ValueError:joint_null"
        ELSE IF Len(joint) # 2 THEN "ValueError:joint_2d"
        ELSE IF azims # joint[1] \/ gates # joint[2] THEN "ValueError:joint_dims"
        ELSE "ok"

IrisOutput_validate(self) ==
    LET base == BaseOutput_validate(self)
    IN  IF base # "ok" THEN base
        ELSE IF self.velocity.none \/ self.spectrum_width.none
                \/ self.total_power.none
        THEN "AttributeError"
        ELSE IF self.velocity.shape # self.spectrum_width.shape
        THEN "ValueError:aux_shape"
        ELSE IF self.velocity.shape # self.total_power.shape
        THEN "ValueError:aux_shape"
        ELSE "ok"

----------------------------------------------------------------------------
(* netCDF4 *)

\* The netCDF4 builds: one broadcasts the data assigned to a variable to
\* the variable's shape, an older one takes data of one element or of the
\* variable's size.
NetcdfBuilds == {"broadcast", "conform"}

\* nc.Dataset(filename, mode="w"): the file is created or truncated.
DatasetW == [exists |-> TRUE, closed |-> FALSE, attrs |-> <<>>, dims |-> <<>>,
             vars |-> <<>>]

createDimension(file, name, size) ==
    [file EXCEPT !.dims = (name :> size) @@ @]

\* createVariable(name, type, dimensions): the variable holds fill values.
createVariable(file, name, dimensions) ==
    [file EXCEPT !.vars =
        (name :> [shape |-> [i \in 1..Len(dimensions) |-> file.dims[dimensions[i]]],
                  written |-> FALSE, value |-> 0]) @@ @]

\* Whether variable[:, :, :] = array[:, :, :] is accepted.
Assignable(shape, arr, nc) ==
    /\ Len(arr.shape) = 3
    /\ \/ arr.shape = shape
       \/ /\ nc = "broadcast"
          /\ \A i \in 1..3 : arr.shape[i] = shape[i] \/ arr.shape[i] = 1
       \/ /\ nc = "conform"
          /\ Product(arr.shape) \in {1, Product(shape)}

\* The outcome of variable[:, :, :] = array[:, :, :].
AssignOutcome(file, name, arr, nc) ==
    IF arr.none THEN "TypeError"
    ELSE IF Len(arr.shape) # 3 THEN "IndexError"
    ELSE IF ~Assignable(file.vars[name].shape, arr, nc) THEN "ValueError:assign"
    ELSE "ok"

Assign(file, name, value) ==
    [file EXCEPT !.vars[name].written = TRUE, !.vars[name].value = value]

\* Reading a variable back: its shape, whether it holds only fill values,
\* and its value.
ReadVariable(file, name) ==
    [shape |-> file.vars[name].shape, fill |-> ~file.vars[name].written,
     value |-> file.vars[name].value]

----------------------------------------------------------------------------
(* BaseOutput.write_metadata, BaseOutput.write, IrisOutput.write,          *)
(* BaseOutput.append_target_id *)

\* scan_dt.strftime("%Y%m%d%H%M"): the seconds are dropped.
strftime(dt) == <<dt.year, dt.month, dt.day, dt.hour, dt.minute>>

write_metadata(self, dset) ==
    [dset EXCEPT !.attrs =
        [latitude |-> self.metadata.lat, longitude |-> self.metadata.lon,
         radar_id |-> self.metadata.radar_id,
         datetime |-> strftime(self.metadata.scan_dt),
         name |-> self.metadata.name, filetype |-> self.radar_filetype]]

\* The statements of a method run in order on a file; the first that
\* raises ends the method with the file as it then is, still open.
Step(r, outcome, file) ==
    IF r.outcome # "ok" THEN r
    ELSE IF outcome # "ok" THEN [outcome |-> outcome, fs |-> r.fs]
    ELSE [outcome |-> "ok", fs |-> file]

\* nc_dbz_joint = self.joint_product[:,:] rebinds the local name: nothing
\* is assigned to the variable dbz_joint.
BaseOutput_write(self, nc) ==
    LET dims3 == <<"dbz_elevs", "azims", "gates">>
        d0 == write_metadata(self, DatasetW)
        s0 == [outcome |-> "ok", fs |-> d0]
        s1 == Step(s0, IF self.dbz_elevs.none THEN "TypeError" ELSE "ok",
                   createVariable(createVariable(createVariable(createVariable(
                     createDimension(createDimension(createDimension(d0,
                       "dbz_elevs", Len(self.dbz_elevs.seq)),
                       "azims", self.grid_info.azims),
                       "gates", self.grid_info.gates),
                     "dbz_elevs", <<"dbz_elevs">>),
                     "dbz_filtered", dims3),
                     "dbz_unfiltered", dims3),
                     "dbz_joint", <<"azims", "gates">>))
        s2 == Step(s1, "ok", Assign(s1.fs, "dbz_elevs", self.dbz_elevs.seq))
        s3 == Step(s2, AssignOutcome(s2.fs, "dbz_filtered", self.dbz_filtered, nc),
                   Assign(s2.fs, "dbz_filtered", self.dbz_filtered.value))
        s4 == Step(s3, AssignOutcome(s3.fs, "dbz_unfiltered", self.dbz_unfiltered, nc),
                   Assign(s3.fs, "dbz_unfiltered", self.dbz_unfiltered.value))
        s5 == Step(s4, IF self.joint_product.none THEN "TypeError" ELSE "ok", s4.fs)
    IN  Step(s5, "ok", [s5.fs EXCEPT !.closed = TRUE])

\* The second phase of IrisOutput.write, on the file the first phase left.
IrisOutput_write_aux(self, file, nc) ==
    LET dop_dims == <<"dop_elevs", "azims", "gates">>
        s0 == [outcome |-> "ok", fs |-> [file EXCEPT !.closed = FALSE]]
        s1 == Step(s0, IF self.dop_elevs.none THEN "TypeError" ELSE "ok",
                   createVariable(createVariable(createVariable(createVariable(
                     createDimension(s0.fs, "dop_elevs", Len(self.dop_elevs.seq)),
                     "dop_elevs", <<"dop_elevs">>),
                     "total_power", dop_dims),
                     "velocity", dop_dims),
                     "spectrum_width", dop_dims))
        s2 == Step(s1, "ok", Assign(s1.fs, "dop_elevs", self.dop_elevs.seq))
        s3 == Step(s2, AssignOutcome(s2.fs, "total_power", self.total_power, nc),
                   Assign(s2.fs, "total_power", self.total_power.value))
        s4 == Step(s3, AssignOutcome(s3.fs, "velocity", self.velocity, nc),
                   Assign(s3.fs, "velocity", self.velocity.value))
        s5 == Step(s4, AssignOutcome(s4.fs, "spectrum_width", self.spectrum_width, nc),
                   Assign(s4.fs, "spectrum_width", self.spectrum_width.value))
    IN  Step(s5, "ok", [s5.fs EXCEPT !.closed = TRUE])

\* IrisOutput.write(filename) with file at the path: the outcome and the
\* file afterwards.
IrisOutput_write(self, file, nc) ==
    LET check == IrisOutput_validate(self)
        base  == BaseOutput_write(self, nc)
    IN  IF check # "ok" THEN [outcome |-> check, fs |-> file]
        ELSE IF base.outcome # "ok" THEN base
        ELSE IrisOutput_write_aux(self, base.fs, nc)

\* BaseOutput.append_target_id(filename, id_matrix).
append_target_id(self, file, id_matrix, nc) ==
    LET check == IrisOutput_validate(self)
        dims3 == <<"dbz_elevs", "azims", "gates">>
        s0 == [outcome |-> "ok", fs |-> [file EXCEPT !.closed = FALSE]]
        s1 == Step(s0, IF "target_id" \in DOMAIN file.vars THEN "RuntimeError"
                       ELSE IF \E i \in 1..3 : dims3[i] \notin DOMAIN file.dims
                       THEN "ValueError:dimension" ELSE "ok",
                   createVariable(s0.fs, "target_id", dims3))
        s2 == Step(s1, AssignOutcome(s1.fs, "target_id", id_matrix, nc),
                   Assign(s1.fs, "target_id", id_matrix.value))
    IN  IF check # "ok" THEN [outcome |-> check, fs |-> file]
        ELSE IF ~file.exists THEN [outcome |-> "FileNotFoundError", fs |-> file]
        ELSE Step(s2, "ok", [s2.fs EXCEPT !.closed = TRUE])

----------------------------------------------------------------------------
(* The writer: an IrisOutput is populated, written and extended.          *)

Metadatas ==
    {[lat |-> 45, lon |-> -73, radar_id |-> "xam", name |-> "Val d'Irene",
      scan_dt |-> [year |-> 2019, month |-> 7, day |-> 1, hour |-> 12,
                   minute |-> 30, second |-> s]] : s \in {0, 59}}

\* A file left at the output path by somebody else.
OldFile == [exists |-> TRUE, closed |-> TRUE, attrs |-> [stale |-> TRUE],
            dims |-> <<>>, vars |-> <<>>]

\* A volume set that satisfies every invariant of the data model, for nz
\* reflectivity scans and nd doppler scans.
ValidSet(g, nz, nd) ==
    [dbz_filtered |-> Array(<<nz, g.azims, g.gates>>, 1),
     dbz_unfiltered |-> Array(<<nz, g.azims, g.gates>>, 2),
     joint_product |-> Array(<<g.azims, g.gates>>, 3),
     dbz_elevs |-> Vector(Ramp(nz)), dopvol_elevs |-> Vector(Ramp(nd)),
     velocity |-> Array(<<nd, g.azims, g.gates>>, 4),
     spectrum_width |-> Array(<<nd, g.azims, g.gates>>, 5),
     total_power |-> Array(<<nd, g.azims, g.gates>>, 6)]

ArrayFields == {"dbz_filtered", "dbz_unfiltered", "joint_product", "velocity",
                "spectrum_width", "total_power"}

VectorFields == {"dbz_elevs", "dopvol_elevs"}

\* What a field of the set may hold instead: None, an array with one scan
\* more, one azimuth more or one gate more, a 2-D array for a 3-D one and a
\* 3-D array for a 2-D one; a vector with one elevation more.
Variants(field, v) ==
    IF field \in VectorFields
    THEN {v, NoVector, Vector(Ramp(Len(v.seq) + 1))}
    ELSE IF Len(v.shape) = 3
    THEN {v, None,
          Array(<<v.shape[1] + 1, v.shape[2], v.shape[3]>>, v.value),
          Array(<<v.shape[1], v.shape[2] + 1, v.shape[3]>>, v.value),
          Array(<<v.shape[1], v.shape[2], v.shape[3] + 1>>, v.value),
          Array(<<v.shape[2], v.shape[3]>>, v.value)}
    ELSE {v, None,
          Array(<<v.shape[1] + 1, v.shape[2]>>, v.value),
          Array(<<1, v.shape[1], v.shape[2]>>, v.value)}

\* The volume sets handed to populate: a valid set with at most two fields
\* replaced.
VolumeSets(g) ==
    UNION {UNION {{[[ValidSet(g, nz, nd) EXCEPT ![f1] = v1] EXCEPT ![f2] = v2] :
                      v1 \in Variants(f1, ValidSet(g, nz, nd)[f1]),
                      v2 \in Variants(f2, ValidSet(g, nz, nd)[f2])} :
                  f1 \in ArrayFields \cup VectorFields,
                  f2 \in ArrayFields \cup VectorFields} :
           nz \in 1..MaxElevs, nd \in 1..MaxElevs}

InitOutput ==
    /\ proc = BlankProcessor
    /\ iris_data = NoData
    /\ convol_precip = Zeros(<<0, 0, 0>>)
    /\ dopvol_precip = Zeros(<<0, 0, 0>>)
    /\ call = NoCall
    /\ prev = NoCall
    /\ output \in {IrisOutput__init__(m, g) : m \in Metadatas, g \in Grids}
    /\ fs \in {NoFile, OldFile}

Populate ==
    /\ call.op = "none"
    /\ \E data \in VolumeSets(output.grid_info) :
         output' = populate(output, data)
    /\ call' = [op |-> "populate", outcome |-> "ok"]
    /\ UNCHANGED <<dataVars, proc, fs>>

\* write(filename); call.fs is the file before the call.
Write ==
    /\ call.op \in {"none", "populate"}
    /\ \E nc \in NetcdfBuilds :
         LET r == IrisOutput_write(output, fs, nc)
         IN  /\ fs' = r.fs
             /\ call' = [op |-> "write", outcome |-> r.outcome, fs |-> fs]
    /\ UNCHANGED <<dataVars, proc, output>>

\* append_target_id(filename, id_matrix) once the file has been written.
AppendTargetId ==
    /\ call.op = "write"
    /\ \E nc \in NetcdfBuilds, n \in 1..MaxElevs :
         LET id_matrix == Array(<<n, output.grid_info.azims,
                                  output.grid_info.gates>>, 7)
             r == append_target_id(output, fs, id_matrix, nc)
         IN  /\ fs' = r.fs
             /\ call' = [op |-> "append_target_id", outcome |-> r.outcome,
                         fs |-> fs]
    /\ UNCHANGED <<dataVars, proc, output>>

NextOutput == Populate \/ Write \/ AppendTargetId

SpecOutput == InitOutput /\ [][NextOutput]_vars

----------------------------------------------------------------------------
(* Properties of the writer *)

\* C5: write with dbz_filtered and dbz_unfiltered of different shapes
\* raises the validation error before any output resource is opened: the
\* file at the path is as it was, and there is none if there was none.
C5_ValidationBeforeOpen ==
    (/\ call.op = "write" /\ output.populated
     /\ ~output.dbz_filtered.none /\ ~output.dbz_unfiltered.none
     /\ output.dbz_filtered.shape # output.dbz_unfiltered.shape) =>
        /\ call.outcome = "ValueError:dbz_shape"
        /\ fs = call.fs
        /\ ~call.fs.exists => ~fs.exists

\* write was refused for dbz volumes that differ only in the number of
\* scans, with no file at the path before or after.
C5_Witness ==
    /\ call.op = "write" /\ call.outcome = "ValueError:dbz_shape"
    /\ ~output.dbz_filtered.none /\ ~output.dbz_unfiltered.none
    /\ output.dbz_filtered.shape[2] = output.dbz_unfiltered.shape[2]
    /\ output.dbz_filtered.shape[1] # output.dbz_unfiltered.shape[1]
    /\ ~call.fs.exists /\ ~fs.exists

\* The variables and the variables assigned by the two phases of write.
WrittenVariables ==
    {"dbz_elevs", "dbz_filtered", "dbz_unfiltered", "dop_elevs", "total_power",
     "velocity", "spectrum_width"}

\* C6: a single write never leaves a partially written file: either it
\* raises with the file at the path untouched (not created, not
\* truncated), or it returns with every write of both phases done.
C6_NoPartialFile ==
    call.op = "write" =>
        /\ call.outcome # "ok" => fs = call.fs
        /\ call.outcome = "ok" =>
             /\ fs.exists /\ fs.closed
             /\ \A v \in WrittenVariables :
                  v \in DOMAIN fs.vars /\ fs.vars[v].written

\* The volume set written satisfies the invariants of the data model.
ValidOutput ==
    /\ output.populated
    /\ \E nz \in 1..MaxElevs, nd \in 1..MaxElevs :
         output = populate(output, ValidSet(output.grid_info, nz, nd))

\* C7: after a successful write of a valid volume set, reading the file
\* back yields dbz_elevs, dbz_filtered, dbz_unfiltered and dbz_joint equal
\* to the dbz_elevs, dbz_filtered, dbz_unfiltered and joint_product
\* written, and the attributes latitude, longitude, radar_id, name and
\* filetype equal to the metadata supplied.
C7_RoundTrip ==
    (call.op = "write" /\ call.outcome = "ok" /\ ValidOutput) =>
        /\ ReadVariable(fs, "dbz_elevs") =
             [shape |-> <<Len(output.dbz_elevs.seq)>>, fill |-> FALSE,
              value |-> output.dbz_elevs.seq]
        /\ ReadVariable(fs, "dbz_filtered") =
             [shape |-> output.dbz_filtered.shape, fill |-> FALSE,
              value |-> output.dbz_filtered.value]
        /\ ReadVariable(fs, "dbz_unfiltered") =
             [shape |-> output.dbz_unfiltered.shape, fill |-> FALSE,
              value |-> output.dbz_unfiltered.value]
        /\ ReadVariable(fs, "dbz_joint") =
             [shape |-> output.joint_product.shape, fill |-> FALSE,
              value |-> output.joint_product.value]
        /\ fs.attrs.latitude = output.metadata.lat
        /\ fs.attrs.longitude = output.metadata.lon
        /\ fs.attrs.radar_id = output.metadata.radar_id
        /\ fs.attrs.name = output.metadata.name
        /\ fs.attrs.filetype = "iris"

====
